---- MODULE Spec2Model ----
(***************************************************************************)
(* Model of pgr2bq.py: the conversion of an osm2po PgRouting SQL dump into *)
(* typed records.  Text is modelled as sequences of one-character strings, *)
(* so that the regular expressions, str.split / strip / partition and the  *)
(* csv reader of the source are computed character by character.           *)
(***************************************************************************)
EXTENDS Integers, Sequences, FiniteSets, TLC

VARIABLES stmt, fields, name, records, pc, err, writers, output_format, nread

vars == <<stmt, fields, name, records, pc, err, writers, output_format, nread>>

(***************************************************************************)
(* Bounds of the model.                                                    *)
(***************************************************************************)
MaxLines == 2
MaxOps == 2

(***************************************************************************)
(* Characters and the str methods the source calls.                        *)
(***************************************************************************)
NL == "\n"
TAB == "\t"
SP == " "
Whitespace == {SP, TAB, NL, "\r", "\f"}
Digits == <<"0", "1", "2", "3", "4", "5", "6", "7", "8", "9">>
UpperAlpha == <<"A", "B", "C", "D", "E", "F", "G", "H", "I", "J", "K", "L", "M",
                "N", "O", "P", "Q", "R", "S", "T", "U", "V", "W", "X", "Y", "Z">>
LowerAlpha == <<"a", "b", "c", "d", "e", "f", "g", "h", "i", "j", "k", "l", "m",
                "n", "o", "p", "q", "r", "s", "t", "u", "v", "w", "x", "y", "z">>

IsDigit(c) == \E k \in 1..10 : Digits[k] = c
DigitVal(c) == (CHOOSE k \in 1..10 : Digits[k] = c) - 1
IsHexDigit(c) == IsDigit(c) \/ (\E k \in 1..6 : LowerAlpha[k] = c \/ UpperAlpha[k] = c)

\* str.lower()
lower_char(c) ==
    IF \E k \in 1..26 : UpperAlpha[k] = c
    THEN LowerAlpha[CHOOSE k \in 1..26 : UpperAlpha[k] = c]
    ELSE c
lower(s) == [i \in 1..Len(s) |-> lower_char(s[i])]

\* str.startswith(prefix)
startswith(s, prefix) ==
    Len(s) >= Len(prefix) /\ SubSeq(s, 1, Len(prefix)) = prefix

\* s[i:] on 1-based positions
From(s, i) == SubSeq(s, i, Len(s))

\* index of the first occurrence of character c in s, 0 when absent
IndexOf(s, c) ==
    IF \E i \in 1..Len(s) : s[i] = c
    THEN CHOOSE i \in 1..Len(s) : s[i] = c /\ \A j \in 1..(i - 1) : s[j] # c
    ELSE 0

\* str.strip(): removes leading and trailing whitespace
strip(s) ==
    IF \A i \in 1..Len(s) : s[i] \in Whitespace
    THEN <<>>
    ELSE LET a == CHOOSE i \in 1..Len(s) :
                     s[i] \notin Whitespace /\ \A j \in 1..(i - 1) : s[j] \in Whitespace
             b == CHOOSE i \in 1..Len(s) :
                     s[i] \notin Whitespace /\ \A j \in (i + 1)..Len(s) : s[j] \in Whitespace
         IN SubSeq(s, a, b)

\* a partition around the first run of whitespace
partition_ws(s) ==
    IF \A i \in 1..Len(s) : s[i] \notin Whitespace
    THEN <<s, <<>>, <<>>>>
    ELSE LET i == CHOOSE k \in 1..Len(s) :
                     s[k] \in Whitespace /\ \A j \in 1..(k - 1) : s[j] \notin Whitespace
         IN <<SubSeq(s, 1, i - 1), <<SP>>, strip(From(s, i))>>

\* str.partition(" "): (head, sep, tail) around the first single space
partition(s) ==
    LET i == IndexOf(s, SP)
    IN IF i = 0
       THEN <<s, <<>>, <<>>>>
       ELSE <<SubSeq(s, 1, i - 1), <<SP>>, From(s, i + 1)>>

\* str.split(","): always at least one piece
RECURSIVE split(_)
split(s) ==
    LET i == IndexOf(s, ",")
    IN IF i = 0 THEN <<s>> ELSE <<SubSeq(s, 1, i - 1)>> \o split(From(s, i + 1))

(***************************************************************************)
(* The three regular expressions of the source.  re.search without         *)
(* re.MULTILINE: "^" is the start of the line, "$" is the end of the line  *)
(* or the position before its final newline, "." is any character but a    *)
(* newline, and ".+?" / "\d+?" take the shortest text that lets the rest   *)
(* of the pattern match.                                                   *)
(***************************************************************************)
Content(line) ==
    IF Len(line) > 0 /\ line[Len(line)] = NL THEN SubSeq(line, 1, Len(line) - 1) ELSE line

NoNewline(s) == \A i \in 1..Len(s) : s[i] # NL

HasAt(s, p, lit) ==
    p + Len(lit) - 1 <= Len(s) /\ SubSeq(s, p, p + Len(lit) - 1) = lit

Min(S) == CHOOSE x \in S : \A y \in S : x <= y

\* positions j of a ")" such that "\)[;,]?$" matches from j
CloseEnds(c) ==
    {j \in 1..Len(c) : c[j] = ")" /\ From(c, j + 1) \in {<<>>, <<";">>, <<",">>}}

CreateTablePrefix == <<"C", "R", "E", "A", "T", "E", " ", "T", "A", "B", "L", "E", " ">>

\* positions i of the "(" that ends the group table_name
CreateOpens(c) ==
    {i \in (Len(CreateTablePrefix) + 2)..Len(c) :
        c[i] = "(" /\ \E j \in CloseEnds(c) : j >= i + 2}

\* the groups of a match whose group table_name ends before position i
CreateGroups(c, i) ==
    [matched |-> TRUE,
     table_name |-> SubSeq(c, Len(CreateTablePrefix) + 1, i - 1),
     fields |-> SubSeq(c, i + 1, Min({k \in CloseEnds(c) : k >= i + 2}) - 1)]

CreateMatch(c, opens) ==
    IF NoNewline(c) /\ startswith(c, CreateTablePrefix) /\ opens # {}
    THEN CreateGroups(c, Min(opens))
    ELSE [matched |-> FALSE, table_name |-> <<>>, fields |-> <<>>]

\* r"^CREATE TABLE (?P<table_name>.+?)\((?P<fields>.+?)\)[;,]?$"
create_table_re(line) == CreateMatch(Content(line), CreateOpens(Content(line)))

\* the row pattern without its end anchor
InsertMatchUnanchored(c, J) ==
    IF NoNewline(c) /\ Len(c) > 0 /\ c[1] = "(" /\ J # {}
    THEN [matched |-> TRUE, values |-> SubSeq(c, 2, Min(J) - 1)]
    ELSE [matched |-> FALSE, values |-> <<>>]
insert_re_unanchored(line) ==
    InsertMatchUnanchored(Content(line), {j \in 3..Len(Content(line)) : Content(line)[j] = ")"})

InsertMatch(c, J) ==
    IF NoNewline(c) /\ Len(c) > 0 /\ c[1] = "(" /\ J # {}
    THEN [matched |-> TRUE, values |-> SubSeq(c, 2, Min(J) - 1)]
    ELSE [matched |-> FALSE, values |-> <<>>]

\* r"^\((?P<values>.+?)\)[;,]?$"
insert_re(line) == InsertMatch(Content(line), {j \in CloseEnds(Content(line)) : j >= 3})

\* the literal parts of the AddGeometryColumn pattern, lower-cased (re.IGNORECASE)
GeomL0 == <<"s", "e", "l", "e", "c", "t", " ", "a", "d", "d", "g", "e", "o", "m", "e", "t",
            "r", "y", "c", "o", "l", "u", "m", "n", "(", "'">>
GeomL1 == <<"'", ",", " ", "'">>
GeomL2 == <<"'", ",", " ">>
GeomL3 == <<",", " ", "'">>
GeomL4 == <<"'", ",", " ">>
GeomL5 == <<")", ";">>

AllDigits(s, p, e) == \A i \in p..e : IsDigit(s[i])

\* (?P<dimension>\d+?)\);$ from position p
GeomRest5(c, p) ==
    \E e \in p..Len(c) : AllDigits(c, p, e) /\ From(c, e + 1) = GeomL5
\* (?P<type>.+?)', <dimension>...
GeomRest4(c, p) ==
    \E e \in p..Len(c) : HasAt(c, e + 1, GeomL4) /\ GeomRest5(c, e + 1 + Len(GeomL4))
\* (?P<srid>\d+?), '<type>...
GeomRest3(c, p) ==
    \E e \in p..Len(c) :
        AllDigits(c, p, e) /\ HasAt(c, e + 1, GeomL3) /\ GeomRest4(c, e + 1 + Len(GeomL3))
\* group column_name ends at e
GeomEnd2(c, e) == HasAt(c, e + 1, GeomL2) /\ GeomRest3(c, e + 1 + Len(GeomL2))
\* group table_name ends at e
GeomEnd1(c, e) ==
    /\ HasAt(c, e + 1, GeomL1)
    /\ \E e2 \in (e + 1 + Len(GeomL1))..Len(c) : GeomEnd2(c, e2)

\* the group column_name, which starts at s2
GeomColumn(c, lc, s2) ==
    [matched |-> TRUE,
     column_name |-> SubSeq(c, s2, Min({e \in s2..Len(c) : GeomEnd2(lc, e)}))]

GeomMatch(c, lc, E1) ==
    IF NoNewline(c) /\ startswith(lc, GeomL0) /\ E1 # {}
    THEN GeomColumn(c, lc, Min(E1) + 1 + Len(GeomL1))
    ELSE [matched |-> FALSE, column_name |-> <<>>]

GeomSearch(c, lc) ==
    GeomMatch(c, lc, {e \in (Len(GeomL0) + 1)..Len(c) : GeomEnd1(lc, e)})

\* r"^SELECT AddGeometryColumn\('(?P<table_name>.+?)', '(?P<column_name>.+?)',
\*   (?P<srid>\d+?), '(?P<type>.+?)', (?P<dimension>\d+?)\);$", re.IGNORECASE
geometry_re(line) == GeomSearch(Content(line), lower(Content(line)))

(***************************************************************************)
(* FieldType and TableSchema.                                              *)
(***************************************************************************)
NullToken == <<"n", "u", "l", "l">>

\* FieldType.__init__: the converter, the Avro type and the null token
FieldType(type_converter, avro_data_type) ==
    [conv |-> type_converter, avro |-> avro_data_type, null_value |-> NullToken]

\* FieldType.avro_type
avro_type(ft) == <<"null", ft.avro>>

SqlInteger == <<"i", "n", "t", "e", "g", "e", "r">>
SqlBigint == <<"b", "i", "g", "i", "n", "t">>
SqlVarchar == <<"c", "h", "a", "r", "a", "c", "t", "e", "r", " ", "v", "a", "r", "y", "i", "n", "g">>
SqlDouble == <<"d", "o", "u", "b", "l", "e", " ", "p", "r", "e", "c", "i", "s", "i", "o", "n">>

\* a registry that gives bigint the 32-bit tag
SQL_TABLE_TYPE_MAPPING_int32(sql_type) ==
    CASE sql_type = SqlInteger -> FieldType("int", "int")
      [] sql_type = SqlBigint -> FieldType("int", "int")
      [] sql_type = SqlVarchar -> FieldType("str", "string")
      [] sql_type = SqlDouble -> FieldType("float", "double")
      [] OTHER -> FieldType("str", "string")

\* TableSchema._SQL_TABLE_TYPE_MAPPING.get(sql_type, FieldType(str, "string"))
SQL_TABLE_TYPE_MAPPING(sql_type) ==
    CASE sql_type = SqlInteger -> FieldType("int", "int")
      [] sql_type = SqlBigint -> FieldType("int", "long")
      [] sql_type = SqlVarchar -> FieldType("str", "string")
      [] sql_type = SqlDouble -> FieldType("float", "double")
      [] OTHER -> FieldType("str", "string")

\* the schema is an OrderedDict, modelled as a sequence of items in insertion order
Item(k, v) == [name |-> k, ft |-> v]

\* TableSchema.keys()
keys(schema) == [i \in 1..Len(schema) |-> schema[i].name]

KeySet(schema) == {schema[i].name : i \in 1..Len(schema)}

\* a list append: a present key gets a second item
add_field_append(schema, k, v) == Append(schema, Item(k, v))

\* a delete followed by an insert: a present key moves to the end
add_field_move_to_end(schema, k, v) ==
    Append(SelectSeq(schema, LAMBDA it : it.name # k), Item(k, v))

\* OrderedDict.__setitem__: a present key keeps its position, a new key goes last
add_field(schema, k, v) ==
    IF k \in KeySet(schema)
    THEN [i \in 1..Len(schema) |-> IF schema[i].name = k THEN Item(k, v) ELSE schema[i]]
    ELSE Append(schema, Item(k, v))

\* OrderedDict(pairs) and OrderedDict.update(other): one __setitem__ per pair, in order
RECURSIVE update(_, _)
update(schema, items) ==
    IF items = <<>> THEN schema
    ELSE update(add_field(schema, Head(items).name, Head(items).ft), Tail(items))

\* the pair made of the parts of a partition
FieldOfParts(parts) == Item(parts[1], SQL_TABLE_TYPE_MAPPING(parts[3]))

\* TableSchema._parse_create_table_field
parse_create_table_field(field) == FieldOfParts(partition(strip(field)))

\* OrderedDict(map(self._parse_create_table_field, text_fields.split(",")))
FieldsOfPieces(pieces) ==
    update(<<>>, [i \in 1..Len(pieces) |-> parse_create_table_field(pieces[i])])

AddFieldsOfMatch(tname, schema, m) ==
    IF m.matched
    THEN [name |-> m.table_name, fields |-> update(schema, FieldsOfPieces(split(m.fields)))]
    ELSE [name |-> tname, fields |-> schema]

\* TableSchema.add_fields_from_create_table_ddl: the new (name, _fields)
add_fields_from_create_table_ddl(tname, schema, ddl) ==
    AddFieldsOfMatch(tname, schema, create_table_re(ddl))

AddGeometryOfMatch(schema, m) ==
    IF m.matched
    THEN add_field(schema, m.column_name, FieldType("wkb", "string"))
    ELSE schema

\* TableSchema.add_geometry_column_from_ddl: the new _fields
add_geometry_column_from_ddl(schema, ddl) == AddGeometryOfMatch(schema, geometry_re(ddl))

(***************************************************************************)
(* Values of record fields: Python None, int, float and str.               *)
(***************************************************************************)
Val(t, i, s) == [t |-> t, i |-> i, s |-> s]
PyNone == Val("None", 0, <<>>)
\* the key None, distinct from every text (texts hold one character per element)
NoneKey == <<"None">>

RECURSIVE DigitsValue(_)
DigitsValue(s) ==
    IF s = <<>> THEN 0
    ELSE 10 * DigitsValue(SubSeq(s, 1, Len(s) - 1)) + DigitVal(s[Len(s)])

IntOfText(t) ==
    IF t # <<>> /\ AllDigits(t, 1, Len(t))
    THEN [ok |-> TRUE, val |-> Val("int", DigitsValue(t), <<>>)]
    ELSE [ok |-> FALSE, val |-> PyNone]

\* int(value): surrounding whitespace is ignored, then decimal digits
\* (signs and digit-group underscores are not in the alphabet of the inputs)
py_int(value) == IntOfText(strip(value))

RECURSIVE StripZeros(_)
StripZeros(s) ==
    IF s # <<>> /\ s[Len(s)] = "0" THEN StripZeros(SubSeq(s, 1, Len(s) - 1)) ELSE s

FloatOfParts(ip, fp) ==
    IF Len(ip) + Len(fp) > 0 /\ AllDigits(ip, 1, Len(ip)) /\ AllDigits(fp, 1, Len(fp))
    THEN [ok |-> TRUE, val |-> Val("float", DigitsValue(ip), StripZeros(fp))]
    ELSE [ok |-> FALSE, val |-> PyNone]

FloatOfText(t, dot) ==
    IF dot = 0 THEN FloatOfParts(t, <<>>)
    ELSE FloatOfParts(SubSeq(t, 1, dot - 1), From(t, dot + 1))

\* float(value): digits with at most one decimal point and at least one digit
\* (signs, exponents, inf and nan are not in the alphabet of the inputs);
\* the value is the integer part and the significant fraction digits
py_float(value) == FloatOfText(strip(value), IndexOf(strip(value), "."))

\* convert_wkb_to_wkt(strip_srid=True): bytes.fromhex needs pairs of hex digits;
\* geomet's wkb.loads, the two pops and wkt.dumps are outside the repository,
\* decoder_ok is whether they accept the bytes
convert_wkb_to_wkt(wkb_hex_value, decoder_ok) ==
    IF /\ \A i \in 1..Len(wkb_hex_value) : IsHexDigit(wkb_hex_value[i])
       /\ Len(wkb_hex_value) % 2 = 0
    THEN IF decoder_ok
         THEN [ok |-> TRUE, err |-> "", val |-> Val("wkt", 0, lower(wkb_hex_value))]
         ELSE [ok |-> FALSE, err |-> "geomet", val |-> PyNone]
    ELSE [ok |-> FALSE, err |-> "ValueError", val |-> PyNone]

\* a ValueError for a text int or float rejects
Raises(res) == [ok |-> res.ok, err |-> IF res.ok THEN "" ELSE "ValueError", val |-> res.val]

\* the converter a FieldType wraps
type_converter(conv, value, decoder_ok) ==
    CASE conv = "int" -> Raises(py_int(value))
      [] conv = "float" -> Raises(py_float(value))
      [] conv = "wkb" -> convert_wkb_to_wkt(value, decoder_ok)
      [] OTHER -> [ok |-> TRUE, err |-> "", val |-> Val("str", 0, value)]

\* a call that does not test the null token
FieldType_call_no_null(ft, value, decoder_ok) == type_converter(ft.conv, value, decoder_ok)

\* FieldType.__call__
FieldType_call(ft, value, decoder_ok) ==
    IF value = ft.null_value
    THEN [ok |-> TRUE, err |-> "", val |-> PyNone]
    ELSE type_converter(ft.conv, value, decoder_ok)

\* repr of a str without backslashes or double quotes
py_repr(s) ==
    IF IndexOf(s, "'") = 0 THEN <<"'">> \o s \o <<"'">> ELSE <<"\"">> \o s \o <<"\"">>

\* str(list of str)
RECURSIVE py_repr_join(_)
py_repr_join(l) ==
    IF l = <<>> THEN <<>>
    ELSE IF Len(l) = 1 THEN py_repr(l[1])
    ELSE py_repr(l[1]) \o <<",", " ">> \o py_repr_join(Tail(l))
py_str_list(l) == <<"[">> \o py_repr_join(l) \o <<"]">>

(***************************************************************************)
(* csv.reader with the dialect "sql": delimiter ",", quotechar "'",        *)
(* doublequote, skipinitialspace, not strict.                              *)
(***************************************************************************)
RECURSIVE csv_parse(_, _, _, _, _)
csv_parse(s, i, state, field, row) ==
    IF i > Len(s)
    THEN Append(row, field)
    ELSE LET c == s[i]
         IN CASE state = "START_FIELD" ->
                   IF c = "'" THEN csv_parse(s, i + 1, "IN_QUOTED_FIELD", field, row)
                   ELSE IF c = SP THEN csv_parse(s, i + 1, "START_FIELD", field, row)
                   ELSE IF c = "," THEN csv_parse(s, i + 1, "START_FIELD", <<>>, Append(row, field))
                   ELSE csv_parse(s, i + 1, "IN_FIELD", Append(field, c), row)
              [] state = "IN_FIELD" ->
                   IF c = "," THEN csv_parse(s, i + 1, "START_FIELD", <<>>, Append(row, field))
                   ELSE csv_parse(s, i + 1, "IN_FIELD", Append(field, c), row)
              [] state = "IN_QUOTED_FIELD" ->
                   IF c = "'" THEN csv_parse(s, i + 1, "QUOTE_IN_QUOTED_FIELD", field, row)
                   ELSE csv_parse(s, i + 1, "IN_QUOTED_FIELD", Append(field, c), row)
              [] OTHER ->
                   IF c = "'" THEN csv_parse(s, i + 1, "IN_QUOTED_FIELD", Append(field, c), row)
                   ELSE IF c = "," THEN csv_parse(s, i + 1, "START_FIELD", <<>>, Append(row, field))
                   ELSE csv_parse(s, i + 1, "IN_FIELD", Append(field, c), row)

csv_reader(values) == csv_parse(values, 1, "START_FIELD", <<>>, <<>>)

(***************************************************************************)
(* TableSchema.get_converter and DDLConverter.parse_insert_values.         *)
(***************************************************************************)
\* TableSchema.get_converter(field) applied to a value: _fields.get(field, str)(v);
\* the default str is applied to the list of extra values kept under the key None
get_converter(schema, field, v, decoder_ok) ==
    IF field \in KeySet(schema)
    THEN FieldType_call((CHOOSE it \in {schema[i] : i \in 1..Len(schema)} : it.name = field).ft,
                        v, decoder_ok)
    ELSE [ok |-> TRUE, err |-> "",
          val |-> Val("str", 0, IF field = NoneKey THEN py_str_list(v) ELSE v)]

\* dict(zip(self.fieldnames, row))
Zip(fieldnames, row, n) == [i \in 1..n |-> <<fieldnames[i], row[i]>>]

\* csv.DictReader.__next__: the row zipped with the fieldnames; more values than
\* fieldnames go under the key None as a list; fewer values slice the fieldnames,
\* which are a keys view and cannot be sliced
DictOfRow(row, fieldnames) ==
    IF Len(fieldnames) < Len(row)
    THEN [ok |-> TRUE,
          d |-> Append(Zip(fieldnames, row, Len(fieldnames)),
                       <<NoneKey, SubSeq(row, Len(fieldnames) + 1, Len(row))>>)]
    ELSE IF Len(fieldnames) > Len(row)
    THEN [ok |-> FALSE, d |-> <<>>]
    ELSE [ok |-> TRUE, d |-> Zip(fieldnames, row, Len(row))]

DictReader(values, fieldnames) == DictOfRow(csv_reader(values), fieldnames)

\* {k: converter(v) for k, v in data.items()}: the first error raised, or the record
RecordOf(data, conv, bad) ==
    IF bad # {}
    THEN [ok |-> FALSE, err |-> conv[Min(bad)].err, record |-> <<>>]
    ELSE [ok |-> TRUE, err |-> "",
          record |-> [k \in {data[i][1] : i \in 1..Len(data)} |->
                         conv[CHOOSE i \in 1..Len(data) : data[i][1] = k].val]]

Converted(data, conv) == RecordOf(data, conv, {i \in 1..Len(data) : ~conv[i].ok})

ConvertData(csv_data, table_schema, decoder_ok) ==
    IF ~csv_data.ok
    THEN [ok |-> FALSE, err |-> "TypeError", record |-> <<>>]
    ELSE Converted(csv_data.d,
                   [i \in 1..Len(csv_data.d) |->
                       get_converter(table_schema, csv_data.d[i][1], csv_data.d[i][2],
                                     decoder_ok)])

\* DDLConverter.parse_insert_values: the record, or the error raised
parse_insert_values(values, table_schema, decoder_ok) ==
    ConvertData(DictReader(values, keys(table_schema)), table_schema, decoder_ok)

(***************************************************************************)
(* The input: statements of a dump and the line of text each is written as.*)
(***************************************************************************)
Stmt(kind, kw, cols, lits, term) ==
    [kind |-> kind, kw |-> kw, cols |-> cols, lits |-> lits, term |-> term]
Col(n, sep, type) == [name |-> n, sep |-> sep, type |-> type]

NoStmt == Stmt("none", <<>>, <<>>, <<>>, <<>>)

RECURSIVE Join(_, _)
Join(parts, sep) ==
    IF parts = <<>> THEN <<>>
    ELSE IF Len(parts) = 1 THEN parts[1]
    ELSE parts[1] \o sep \o Join(Tail(parts), sep)

CommaSpace == <<",", " ">>
TableT == <<"t">>
Srid == <<"4", "3", "2", "6">>
GeomType == <<"'", "L", "I", "N", "E", "S", "T", "R", "I", "N", "G", "'">>
Dimension == <<"2">>

\* the line of the dump, with its newline
Render(st) ==
    CASE st.kind = "create" ->
           st.kw \o TableT \o <<"(">>
             \o Join([i \in 1..Len(st.cols) |->
                        st.cols[i].name \o st.cols[i].sep \o st.cols[i].type], CommaSpace)
             \o <<")">> \o st.term \o <<NL>>
      [] st.kind = "geom" ->
           st.kw \o <<"(">>
             \o Join(<<<<"'">> \o TableT \o <<"'">>,
                       <<"'">> \o st.cols[1].name \o <<"'">>,
                       Srid, GeomType, Dimension>>, st.cols[1].sep)
             \o st.term \o <<NL>>
      [] st.kind = "row" ->
           <<"(">> \o Join(st.lits, CommaSpace) \o <<")">> \o st.term \o <<NL>>
      [] OTHER -> st.kw \o <<NL>>

KwCreate == CreateTablePrefix
KwCreateLower == lower(CreateTablePrefix)
KwGeom == <<"S", "E", "L", "E", "C", "T", " ", "A", "d", "d", "G", "e", "o", "m", "e", "t",
            "r", "y", "C", "o", "l", "u", "m", "n">>
KwGeomLower == lower(KwGeom)

ColA == <<"a">>
ColB == <<"b">>
ColG == <<"g">>
SqlText == <<"t", "e", "x", "t">>
SqlTypes == {SqlInteger, SqlBigint, SqlVarchar, SqlDouble, SqlText}
Seps == {<<SP>>, <<SP, SP>>, <<TAB>>}

LitHex == <<"0", "1">>
LitNull == NullToken
LitQuoted == <<"'", "a", ",", "b", "'">>
RowLiterals == {LitHex, LitNull, LitQuoted}

\* rows of one and of two literals, ended by ";" or ","; one row followed by more text
RowStmts ==
    {Stmt("row", <<>>, <<>>, l, <<";">>) :
        l \in {<<x>> : x \in RowLiterals} \cup {<<x, y>> : x \in RowLiterals, y \in RowLiterals}}
    \cup {Stmt("row", <<>>, <<>>, <<LitHex>>, <<",">>),
          Stmt("row", <<>>, <<>>, <<LitHex>>, <<";", "x">>)}

OtherStmts ==
    {Stmt("other", <<"B", "E", "G", "I", "N", ";">>, <<>>, <<>>, <<>>)}

\* the statements of the conversion runs
DriverCols == {Col(ColA, <<SP>>, SqlInteger), Col(ColB, <<SP>>, SqlVarchar),
               Col(ColB, <<SP>>, SqlDouble)}
DriverCreateStmts ==
    {Stmt("create", KwCreate, b, <<>>, <<";">>) :
        b \in {<<c>> : c \in DriverCols}
              \cup {q \in {<<c, d>> : c \in DriverCols, d \in DriverCols} :
                        q[1].name # q[2].name}}
    \cup {Stmt("create", KwCreateLower, <<Col(ColA, <<SP>>, SqlInteger)>>, <<>>, <<";">>)}
DriverGeomStmts ==
    {Stmt("geom", KwGeom, <<Col(ColB, CommaSpace, <<>>)>>, <<>>, <<")", ";">>),
     Stmt("geom", KwGeom, <<Col(ColG, CommaSpace, <<>>)>>, <<>>, <<")", ";">>),
     Stmt("geom", KwGeomLower, <<Col(ColG, CommaSpace, <<>>)>>, <<>>, <<")", ";">>),
     Stmt("geom", KwGeom, <<Col(ColG, <<",">>, <<>>)>>, <<>>, <<")", ";">>)}
DriverStmts == DriverCreateStmts \cup DriverGeomStmts \cup RowStmts \cup OtherStmts

\* the statements given to the schema builder on its own: one column with every
\* type text and separator, two columns, and the other spellings of one statement
BuilderPieces == {Col(n, <<SP>>, t) : n \in {ColA, ColB}, t \in {SqlInteger, SqlText}}
BuilderBodies ==
    {<<Col(n, <<SP>>, t)>> : n \in {ColA, ColB}, t \in SqlTypes}
    \cup {<<Col(ColA, sep, t)>> : sep \in Seps, t \in SqlTypes}
    \cup {<<c, d>> : c \in BuilderPieces, d \in BuilderPieces}
BuilderCreateStmts ==
    {Stmt("create", KwCreate, b, <<>>, <<";">>) : b \in BuilderBodies}
    \cup {Stmt("create", kw, <<Col(ColA, <<SP>>, SqlInteger)>>, <<>>, t) :
            kw \in {KwCreate, KwCreateLower}, t \in {<<>>, <<";">>, <<",">>, <<";", "x">>}}
BuilderGeomStmts ==
    {Stmt("geom", KwGeom, <<Col(c, CommaSpace, <<>>)>>, <<>>, <<")", ";">>) :
        c \in {ColA, ColB, ColG}}
    \cup {Stmt("geom", KwGeomLower, <<Col(ColG, CommaSpace, <<>>)>>, <<>>, <<")", ";">>),
          Stmt("geom", KwGeom, <<Col(ColG, <<",">>, <<>>)>>, <<>>, <<")", ";">>),
          Stmt("geom", KwGeom, <<Col(ColG, CommaSpace, <<>>)>>, <<>>, <<")">>)}
BuilderStmts ==
    BuilderCreateStmts \cup BuilderGeomStmts \cup OtherStmts
    \cup {Stmt("row", <<>>, <<>>, <<LitHex>>, <<";">>)}

OutputFormats == {"csv", "json", "avro", "xml"}

(***************************************************************************)
(* DDLConverter.convert.                                                   *)
(***************************************************************************)
DispatchCreate == <<"c", "r", "e", "a", "t", "e", " ", "t", "a", "b", "l", "e">>
DispatchGeom == <<"s", "e", "l", "e", "c", "t", " ", "a", "d", "d", "g", "e", "o", "m", "e", "t",
                  "r", "y", "c", "o", "l", "u", "m", "n">>

\* if line.lower().startswith("create table")
dispatch_create(tname, schema, line) ==
    IF startswith(lower(line), DispatchCreate)
    THEN add_fields_from_create_table_ddl(tname, schema, line)
    ELSE [name |-> tname, fields |-> schema]

\* if line.lower().startswith("select addgeometrycolumn")
dispatch_geometry(s, line) ==
    IF startswith(lower(line), DispatchGeom)
    THEN [name |-> s.name, fields |-> add_geometry_column_from_ddl(s.fields, line)]
    ELSE s

\* records.append(...), or the error parse_insert_values raised
append_record(s, recs, parsed) ==
    IF parsed.ok
    THEN [name |-> s.name, fields |-> s.fields, records |-> Append(recs, parsed.record),
          err |-> ""]
    ELSE [name |-> s.name, fields |-> s.fields, records |-> recs, err |-> parsed.err]

\* if insert_line
dispatch_insert(s, recs, insert_line, decoder_ok) ==
    IF insert_line.matched
    THEN append_record(s, recs, parse_insert_values(insert_line.values, s.fields, decoder_ok))
    ELSE [name |-> s.name, fields |-> s.fields, records |-> recs, err |-> ""]

\* the body of the loop over the lines, for one line
convert_line(tname, schema, recs, line, decoder_ok) ==
    dispatch_insert(dispatch_geometry(dispatch_create(tname, schema, line), line),
                    recs, insert_re(line), decoder_ok)

\* csv.DictWriter.writerows raises ValueError on a record with a key that is not a fieldname
write_to_csv(recs, table_schema) ==
    \A i \in 1..Len(recs) : DOMAIN recs[i] \subseteq KeySet(table_schema)

\* the three tests of the output format after the loop; fastavro is outside the
\* repository, avro_ok is whether it accepts the schema and the records
convert_output(fmt, recs, table_schema, avro_ok) ==
    IF fmt = "csv"
    THEN IF write_to_csv(recs, table_schema)
         THEN [writers |-> <<"write_to_csv">>, err |-> ""]
         ELSE [writers |-> <<"write_to_csv">>, err |-> "DictWriter"]
    ELSE IF fmt = "json"
    THEN [writers |-> <<"write_to_json">>, err |-> ""]
    ELSE IF fmt = "avro"
    THEN [writers |-> <<"write_to_avro">>, err |-> IF avro_ok THEN "" ELSE "fastavro"]
    ELSE [writers |-> <<>>, err |-> ""]

Init ==
    /\ stmt = NoStmt
    /\ fields = <<>>
    /\ name = NoneKey
    /\ records = <<>>
    /\ pc = "loop"
    /\ err = ""
    /\ writers = <<>>
    /\ output_format \in OutputFormats
    /\ nread = 0

\* the state after a line
LineDone(st, r) ==
    /\ stmt' = st
    /\ name' = r.name
    /\ fields' = r.fields
    /\ records' = r.records
    /\ err' = r.err
    /\ pc' = IF r.err = "" THEN "loop" ELSE "error"

\* the state after a line of a loop that goes on to the next line after an error
LineDone_resume(st, r) ==
    /\ stmt' = st
    /\ name' = r.name
    /\ fields' = r.fields
    /\ records' = r.records
    /\ err' = r.err
    /\ pc' = "loop"

ConvertLine_resume ==
    /\ pc = "loop"
    /\ nread < MaxLines
    /\ \E st \in DriverStmts, decoder_ok \in BOOLEAN :
         LineDone_resume(st, convert_line(name, fields, records, Render(st), decoder_ok))
    /\ nread' = nread + 1
    /\ UNCHANGED <<writers, output_format>>

\* one iteration of "for line in in_fp"
ConvertLine ==
    /\ pc = "loop"
    /\ nread < MaxLines
    /\ \E st \in DriverStmts, decoder_ok \in BOOLEAN :
         LineDone(st, convert_line(name, fields, records, Render(st), decoder_ok))
    /\ nread' = nread + 1
    /\ UNCHANGED <<writers, output_format>>

\* the state after the output
OutputDone(r) ==
    /\ writers' = r.writers
    /\ err' = r.err
    /\ pc' = IF r.err = "" THEN "done" ELSE "error"

\* the end of the input: the output is written
ConvertOutput ==
    /\ pc = "loop"
    /\ \E avro_ok \in BOOLEAN :
         OutputDone(convert_output(output_format, records, fields, avro_ok))
    /\ UNCHANGED <<stmt, fields, name, records, output_format, nread>>

Next == ConvertLine \/ ConvertOutput

Spec == Init /\ [][Next]_vars

(***************************************************************************)
(* The schema builder on its own: its two operations applied to any line.  *)
(***************************************************************************)
InitBuilder ==
    /\ stmt = NoStmt
    /\ fields = <<>>
    /\ name = NoneKey
    /\ records = <<>>
    /\ pc = "schema"
    /\ err = ""
    /\ writers = <<>>
    /\ output_format = "csv"
    /\ nread = 0

AddFieldsDone(st, r) ==
    /\ stmt' = st
    /\ name' = r.name
    /\ fields' = r.fields

BuilderAddFields ==
    /\ pc # "loop"
    /\ nread < MaxOps
    /\ \E st \in BuilderStmts :
         AddFieldsDone(st, add_fields_from_create_table_ddl(name, fields, Render(st)))
    /\ pc' = "add_fields_from_create_table_ddl"
    /\ nread' = nread + 1
    /\ UNCHANGED <<records, err, writers, output_format>>

BuilderAddGeometry ==
    /\ pc # "loop"
    /\ nread < MaxOps
    /\ \E st \in BuilderStmts :
         /\ stmt' = st
         /\ fields' = add_geometry_column_from_ddl(fields, Render(st))
    /\ pc' = "add_geometry_column_from_ddl"
    /\ nread' = nread + 1
    /\ UNCHANGED <<name, records, err, writers, output_format>>

NextBuilder == BuilderAddFields \/ BuilderAddGeometry

SpecBuilder == InitBuilder /\ [][NextBuilder]_vars

(***************************************************************************)
(* What a statement is, read off the statement itself.                     *)
(***************************************************************************)
LineEnds == {<<>>, <<";">>, <<",">>}
SupportedFormats == {"csv", "json", "avro"}

\* the statement has the shape CREATE TABLE <name>(<col> <type>, ...)
IsCreateTable(st) == st.kind = "create" /\ st.kw = KwCreate /\ st.term \in LineEnds
\* the statement has the shape SELECT AddGeometryColumn('<table>', '<column>', ...);
IsAddGeometryColumn(st) ==
    st.kind = "geom" /\ st.cols[1].sep = CommaSpace /\ st.term = <<")", ";">>
\* the statement has the shape (<values>) with an optional ";" or ","
IsRow(st) == st.kind = "row" /\ st.term \in LineEnds

DistinctNames(cols) == \A i, j \in 1..Len(cols) : cols[i].name = cols[j].name => i = j
SingleSpaces(cols) == \A i \in 1..Len(cols) : cols[i].sep = <<SP>>

\* the text a literal stands for: a quoted literal without its quotes
Unquote(lit) ==
    IF Len(lit) >= 2 /\ lit[1] = "'" /\ lit[Len(lit)] = "'"
    THEN SubSeq(lit, 2, Len(lit) - 1)
    ELSE lit

\* the FieldType the Type Registry documents for a type text
DeclaredType(type) ==
    CASE type = SqlInteger -> [conv |-> "int", avro |-> "int", null_value |-> NullToken]
      [] type = SqlBigint -> [conv |-> "int", avro |-> "long", null_value |-> NullToken]
      [] type = SqlVarchar -> [conv |-> "str", avro |-> "string", null_value |-> NullToken]
      [] type = SqlDouble -> [conv |-> "float", avro |-> "double", null_value |-> NullToken]
      [] OTHER -> [conv |-> "str", avro |-> "string", null_value |-> NullToken]
StringFallback == [conv |-> "str", avro |-> "string", null_value |-> NullToken]
GeometryType == [conv |-> "wkb", avro |-> "string", null_value |-> NullToken]

\* a step of the loop of convert / a call of a schema builder operation
LineStep == nread' = nread + 1
AddFieldsStep == nread' = nread + 1 /\ pc' = "add_fields_from_create_table_ddl"
AddGeometryStep == nread' = nread + 1 /\ pc' = "add_geometry_column_from_ddl"

(***************************************************************************)
(* C1: a row whose number of literal fields differs from the number of     *)
(* schema columns raises an error: no record is appended and the run       *)
(* aborts.                                                                 *)
(***************************************************************************)
C1_MismatchFails ==
    [][(LineStep /\ IsRow(stmt') /\ Len(stmt'.lits) # Len(fields))
         => (pc' = "error" /\ records' = records)]_vars

(***************************************************************************)
(* C2: a row with as many literal fields as the schema has columns gives a *)
(* record over exactly the schema's columns, the i-th field under the i-th *)
(* column: None when the raw text is the column's null token, else the     *)
(* result of the column's converter; the only error is a converter         *)
(* rejecting a text that is not the null token.                            *)
(***************************************************************************)
ConverterResults(ft, raw) ==
    IF raw = ft.null_value
    THEN {PyNone}
    ELSE {type_converter(ft.conv, raw, d).val :
             d \in {e \in BOOLEAN : type_converter(ft.conv, raw, e).ok}}
ConverterMayFail(ft, raw) ==
    raw # ft.null_value /\ \E d \in BOOLEAN : ~type_converter(ft.conv, raw, d).ok

C2_RecordOfRow ==
    [][(LineStep /\ IsRow(stmt') /\ Len(stmt'.lits) = Len(fields))
         => IF pc' = "error"
            THEN /\ records' = records
                 /\ \E i \in 1..Len(fields) :
                      ConverterMayFail(fields[i].ft, Unquote(stmt'.lits[i]))
            ELSE /\ Len(records') = Len(records) + 1
                 /\ SubSeq(records', 1, Len(records)) = records
                 /\ DOMAIN records'[Len(records')] = KeySet(fields)
                 /\ \A i \in 1..Len(fields) :
                      records'[Len(records')][fields[i].name]
                        \in ConverterResults(fields[i].ft, Unquote(stmt'.lits[i]))]_vars

\* the row (01, null) was parsed under the schema (a integer, b character varying)
C2_Witness ==
    /\ pc = "loop"
    /\ stmt.kind = "row" /\ stmt.lits = <<LitHex, LitNull>>
    /\ keys(fields) = <<ColA, ColB>>
    /\ Len(records) = 1
    /\ DOMAIN records[1] = {ColA, ColB}
    /\ records[1][ColA] = Val("int", 1, <<>>)
    /\ records[1][ColB] = PyNone

(***************************************************************************)
(* C3: when convert completes, every record handed to the writer is a      *)
(* mapping over exactly the columns of the final schema.                   *)
(***************************************************************************)
C3_RecordsCoverSchema ==
    pc = "done" => \A i \in 1..Len(records) : DOMAIN records[i] = KeySet(fields)

(***************************************************************************)
(* C4: add_fields_from_create_table_ddl on an empty schema, for a CREATE   *)
(* TABLE line with distinct column names: the columns are in declared      *)
(* order, each with the converter and tag of its type text, the string     *)
(* fallback for an unknown type text.                                      *)
(***************************************************************************)
C4_DeclaredOrderAndTypes ==
    [][(AddFieldsStep /\ fields = <<>> /\ IsCreateTable(stmt')
          /\ DistinctNames(stmt'.cols) /\ SingleSpaces(stmt'.cols))
         => fields' = [i \in 1..Len(stmt'.cols) |->
                          [name |-> stmt'.cols[i].name,
                           ft |-> DeclaredType(stmt'.cols[i].type)]]]_vars

\* CREATE TABLE t(b text, a integer); was added to the empty schema
C4_Witness ==
    /\ pc = "add_fields_from_create_table_ddl"
    /\ nread = 1
    /\ stmt.cols = <<Col(ColB, <<SP>>, SqlText), Col(ColA, <<SP>>, SqlInteger)>>
    /\ keys(fields) = <<ColB, ColA>>
    /\ fields[1].ft = StringFallback
    /\ fields[2].ft.avro = "int"

(***************************************************************************)
(* C5: a schema builder operation applied a second time with the same line *)
(* leaves the schema as the first application left it, and an operation    *)
(* applied to a line that does not match its pattern leaves the schema     *)
(* unchanged.                                                              *)
(***************************************************************************)
C5_Idempotent ==
    [][/\ AddFieldsStep =>
            /\ add_fields_from_create_table_ddl(name', fields', Render(stmt'))
                 = [name |-> name', fields |-> fields']
            /\ (~IsCreateTable(stmt') => fields' = fields /\ name' = name)
       /\ AddGeometryStep =>
            /\ add_geometry_column_from_ddl(fields', Render(stmt')) = fields'
            /\ (~IsAddGeometryColumn(stmt') => fields' = fields)]_vars

\* a geometry column was added to a schema that already held it and another column
C5_Witness ==
    /\ pc = "add_geometry_column_from_ddl"
    /\ nread = 2
    /\ IsAddGeometryColumn(stmt)
    /\ stmt.cols[1].name = ColA
    /\ keys(fields) = <<ColA, ColB>>
    /\ fields[1].ft = GeometryType

(***************************************************************************)
(* C6: with an output format other than csv, json and avro the run does    *)
(* not complete normally; a run that completes normally has invoked        *)
(* exactly one output writer.                                              *)
(***************************************************************************)
C6_UnsupportedFormatFails ==
    pc = "done" => (output_format \in SupportedFormats /\ Len(writers) = 1)

(***************************************************************************)
(* C7: an output writer is invoked only once the loop over the lines is    *)
(* over, and processes no line; a line that raises an error ends the run   *)
(* with no writer invoked; nothing happens after the run has ended.        *)
(***************************************************************************)
C7_NoOutputBeforeEnd ==
    [][/\ pc = "loop"
       /\ writers = <<>>
       /\ writers' # <<>> => (pc' # "loop" /\ nread' = nread /\ records' = records
                               /\ fields' = fields)
       /\ (LineStep /\ err' # "") => (pc' = "error" /\ writers' = <<>>)]_vars

\* a row raised an error as the second line: the run is over, no writer was invoked
C7_Witness ==
    /\ pc = "error"
    /\ nread = 2
    /\ stmt.kind = "row"
    /\ err = "ValueError"
    /\ writers = <<>>

(***************************************************************************)
(* C8: add_geometry_column_from_ddl with a matching line appends the       *)
(* column when the schema does not hold it and overwrites it in place when *)
(* it does; the column gets the geometry decoder with tag string and every *)
(* other column is unchanged.                                              *)
(***************************************************************************)
C8_InsertOrOverwriteInPlace ==
    [][(AddGeometryStep /\ IsAddGeometryColumn(stmt'))
         => LET c == stmt'.cols[1].name
            IN IF c \in KeySet(fields)
               THEN /\ Len(fields') = Len(fields)
                    /\ \A i \in 1..Len(fields) :
                         fields'[i] = IF fields[i].name = c
                                      THEN [name |-> c, ft |-> GeometryType]
                                      ELSE fields[i]
               ELSE fields' = Append(fields, [name |-> c, ft |-> GeometryType])]_vars

\* the first of two columns was overwritten in place
C8_Witness ==
    /\ pc = "add_geometry_column_from_ddl"
    /\ nread = 2
    /\ IsAddGeometryColumn(stmt)
    /\ stmt.cols[1].name = ColB
    /\ keys(fields) = <<ColB, ColA>>
    /\ fields[1].ft = GeometryType
    /\ fields[2].ft # GeometryType

(***************************************************************************)
(* C9: during convert the schema changes only in a step on a line of the   *)
(* CREATE TABLE or the AddGeometryColumn shape; a row line leaves the      *)
(* schema unchanged and at most appends one record; a line of none of the  *)
(* three shapes changes neither the schema nor the records and raises no   *)
(* error.                                                                  *)
(***************************************************************************)
C9_SchemaFrame ==
    [][/\ (fields' # fields \/ name' # name)
            => (LineStep /\ (IsCreateTable(stmt') \/ IsAddGeometryColumn(stmt')))
       /\ (LineStep /\ IsRow(stmt'))
            => (records' = records
                \/ (Len(records') = Len(records) + 1
                    /\ SubSeq(records', 1, Len(records)) = records))
       /\ (LineStep /\ ~IsCreateTable(stmt') /\ ~IsAddGeometryColumn(stmt') /\ ~IsRow(stmt'))
            => (fields' = fields /\ records' = records /\ pc' = "loop" /\ err' = "")]_vars

\* a line of none of the three shapes was skipped after a record had been appended
C9_Witness ==
    /\ pc = "loop"
    /\ nread = 2
    /\ stmt.kind = "row" /\ ~IsRow(stmt)
    /\ Len(records) = 1
    /\ err = ""

(***************************************************************************)
(* C10 as stated: a column name and a type separated by any run of         *)
(* whitespace resolve to the converter and tag of the type name.           *)
(***************************************************************************)
C10_SplitsOnWhitespaceRun ==
    [][(AddFieldsStep /\ fields = <<>> /\ IsCreateTable(stmt') /\ Len(stmt'.cols) = 1)
         => fields' = <<[name |-> stmt'.cols[1].name,
                         ft |-> DeclaredType(stmt'.cols[1].type)]>>]_vars

(***************************************************************************)
(* C10 amended: a piece is split at its first single space character, not  *)
(* at a run of whitespace.  With one space the type text is the type name. *)
(* With two spaces the type text keeps a leading space.  With a tab the    *)
(* column name runs up to the first space of the piece, which is inside    *)
(* the type name if it has one, and the type text is what follows it,      *)
(* empty if there is no space.  In the last two cases the column resolves  *)
(* to the string fallback.                                                 *)
(***************************************************************************)
FirstWord(type) ==
    IF \E i \in 1..Len(type) : type[i] = SP
    THEN SubSeq(type, 1, (CHOOSE i \in 1..Len(type) :
                            type[i] = SP /\ \A j \in 1..(i - 1) : type[j] # SP) - 1)
    ELSE type

C10_SplitsOnFirstSpace ==
    [][(AddFieldsStep /\ fields = <<>> /\ IsCreateTable(stmt') /\ Len(stmt'.cols) = 1)
         => LET c == stmt'.cols[1]
            IN fields' =
                 CASE c.sep = <<SP>> -> <<[name |-> c.name, ft |-> DeclaredType(c.type)]>>
                   [] c.sep = <<SP, SP>> -> <<[name |-> c.name, ft |-> StringFallback]>>
                   [] OTHER -> <<[name |-> c.name \o c.sep \o FirstWord(c.type),
                                  ft |-> StringFallback]>>]_vars

\* CREATE TABLE t(a  integer); with two spaces was added: a is a string column
C10_Witness ==
    /\ pc = "add_fields_from_create_table_ddl"
    /\ nread = 1
    /\ IsCreateTable(stmt)
    /\ stmt.cols = <<Col(ColA, <<SP, SP>>, SqlInteger)>>
    /\ fields = <<[name |-> ColA, ft |-> StringFallback]>>

====
